---- MODULE Spec2Model ----
(***************************************************************************)
(* Card-text similarity search (CardSimilarity.ipynb): text normalisation, *)
(* corpus construction, TF-IDF fit and cosine-similarity ranking.          *)
(*                                                                         *)
(* A text is a sequence of one-character strings.                          *)
(***************************************************************************)
EXTENDS Integers, Sequences, FiniteSets, TLC

(***************************************************************************)
(* Bounds of the model.                                                    *)
(***************************************************************************)
MaxTextLen == 4
MaxCards == 2

(***************************************************************************)
(* Sequence helpers.                                                       *)
(***************************************************************************)
Range(s) == {s[i] : i \in 1..Len(s)}

RECURSIVE SeqsUpTo(_, _)
SeqsUpTo(S, n) ==
  IF n = 0 THEN {<<>>}
  ELSE LET shorter == SeqsUpTo(S, n - 1)
       IN  shorter \cup {Append(s, c) : s \in {t \in shorter : Len(t) = n - 1}, c \in S}

IsPrefix(s, t) == Len(s) <= Len(t) /\ SubSeq(t, 1, Len(s)) = s

(***************************************************************************)
(* Python str primitives used by preprocessText.                           *)
(***************************************************************************)
\* pat occurs in s starting at position i (1-based)
OccursAt(s, pat, i) ==
  /\ i >= 1
  /\ i + Len(pat) - 1 <= Len(s)
  /\ SubSeq(s, i, i + Len(pat) - 1) = pat

\* `pat in s`
Contains(s, pat) == \E i \in 1..(Len(s) + 1) : OccursAt(s, pat, i)

\* str.replace(old, '') for a non-empty old, as the positions of s it keeps:
\* one left-to-right scan that skips each occurrence of old it meets and
\* resumes right after it; what was already kept is never scanned again.
RECURSIVE ReplaceScan(_, _, _)
ReplaceScan(s, old, i) ==
  IF i > Len(s) THEN <<>>
  ELSE IF OccursAt(s, old, i) THEN ReplaceScan(s, old, i + Len(old))
  ELSE <<i>> \o ReplaceScan(s, old, i + 1)

\* the scan of str.replace(old, '', 1): only the first occurrence is skipped
RECURSIVE ReplaceScanFirst(_, _, _)
ReplaceScanFirst(s, old, i) ==
  IF i > Len(s) THEN <<>>
  ELSE IF OccursAt(s, old, i) THEN [j \in 1..(Len(s) - i - Len(old) + 1) |-> i + Len(old) + j - 1]
  ELSE <<i>> \o ReplaceScanFirst(s, old, i + 1)

KeptFirstOnly(s, old) ==
  IF old = <<>> THEN [i \in 1..Len(s) |-> i] ELSE ReplaceScanFirst(s, old, 1)

\* positions of s that s.replace(old, '') keeps; replacing '' by '' keeps all
Kept(s, old) ==
  IF old = <<>> THEN [i \in 1..Len(s) |-> i] ELSE ReplaceScan(s, old, 1)

\* s.replace(old, '')
Replace(s, old) == LET k == Kept(s, old) IN [j \in 1..Len(k) |-> s[k[j]]]

\* the literal separator of cardName.split(" // ")
NameSep == <<" ", "/", "/", " ">>

\* str.split(sep): the parts of s between the occurrences of sep, scanning
\* left to right; always at least one part, parts may be empty.
RECURSIVE SplitFrom(_, _, _, _)
SplitFrom(s, sep, i, cur) ==
  IF i > Len(s) THEN <<cur>>
  ELSE IF OccursAt(s, sep, i) THEN <<cur>> \o SplitFrom(s, sep, i + Len(sep), <<>>)
  ELSE SplitFrom(s, sep, i + 1, Append(cur, s[i]))

Split(s, sep) == SplitFrom(s, sep, 1, <<>>)

\* the upper-case letters of the modelled alphabet and their lower-case forms
UpperCase == {"A", "B", "F", "G", "I", "N", "S", "T", "U", "W", "Y"}

LowerOf(c) ==
  CASE c = "A" -> "a" [] c = "B" -> "b" [] c = "F" -> "f" [] c = "G" -> "g"
    [] c = "I" -> "i" [] c = "N" -> "n" [] c = "S" -> "s" [] c = "T" -> "t"
    [] c = "U" -> "u" [] c = "W" -> "w" [] c = "Y" -> "y"
    [] OTHER -> c

\* lower-cases the first character only
LowerHead(s) == [i \in 1..Len(s) |-> IF i = 1 THEN LowerOf(s[i]) ELSE s[i]]

\* str.lower()
Lower(s) == [i \in 1..Len(s) |-> LowerOf(s[i])]

\* punct: the 27 characters of the notebook's punct string (the backtick is
\* written "backtick" here)
punct ==
  {"!", "\"", "#", "$", "%", "&", "'", "(", ")", "*", ",", ".", ":", ";", "<",
   "=", ">", "?", "@", "[", "\\", "]", "^", "_", "backtick", "|", "~"}

\* a translator that also deletes the braces
punctWithBraces == punct \cup {"{", "}"}

\* translator = str.maketrans('', '', punct)
translator == punct

\* str.translate(translator): delete every character of the table
RECURSIVE Translate(_, _)
Translate(s, table) ==
  IF s = <<>> THEN <<>>
  ELSE IF Head(s) \in table THEN Translate(Tail(s), table)
  ELSE <<Head(s)>> \o Translate(Tail(s), table)

\* the loop `for name in names: namelessText = namelessText.replace(name, '')`
RECURSIVE RemoveNames(_, _)
RemoveNames(text, nms) ==
  IF nms = <<>> THEN text
  ELSE RemoveNames(Replace(text, Head(nms)), Tail(nms))

preprocessText(text, name) ==
  Translate(Lower(RemoveNames(text, Split(name, NameSep))), translator)

(***************************************************************************)
(* State of one run of preprocessText, statement by statement.             *)
(***************************************************************************)
VARIABLES
  input_text,    \* argument of the running preprocessText call
  cardName,      \* argument of the running preprocessText call
  tpc,           \* position in preprocessText: "call", "loop", "punct", "done"
  names,         \* cardName.split(" // ")
  k,             \* index in names of the next sub-name of the for loop
  namelessText,  \* local of preprocessText
  lowerText,     \* local of preprocessText
  noPunctText,   \* the value preprocessText returns
  before,        \* namelessText as it stood before the latest replace
  kept,          \* positions of `before` the latest replace kept
  pass,          \* 1: normalising a raw text, 2: normalising the output again
  firstOut,      \* what the first pass returned
  changed        \* the first pass returned something other than its input

textVars ==
  <<input_text, cardName, tpc, names, k, namelessText, lowerText, noPunctText,
    before, kept, pass, firstOut, changed>>

VARIABLES
  cards_dict,   \* the repository, as the sequence of the dict's items
  pc,           \* "construct", "fit", "ready", "fitError"
  pos,          \* index in cards_dict of the next card of constructCorpus's loop
  cardNames,    \* titles of the documents
  cardTexts,    \* the documents
  tfidf,        \* the fitted vectorizer: vocabulary and idf weights
  tfs,          \* the corpus vectors
  lastCall,     \* the latest similarity request, with what it returned
  prevCall      \* the request before it, kept while the text asked about is the same

corpusVars ==
  <<cards_dict, pc, pos, cardNames, cardTexts, tfidf, tfs, lastCall, prevCall>>

vars == <<textVars, corpusVars>>

\* characters of the raw texts tried: a letter in both cases, a kept symbol,
\* a stripped punctuation mark and a brace
TextAlphabet == {"F", "f", "/", ".", "{"}

\* "{T}: Add {W}."
TapForWhite == <<"{", "T", "}", ":", " ", "A", "d", "d", " ", "{", "W", "}", ".">>

\* "{t} add {w}"
TapForWhiteClean == <<"{", "t", "}", " ", "a", "d", "d", " ", "{", "w", "}">>

TextInputs == SeqsUpTo(TextAlphabet, MaxTextLen) \cup {TapForWhite}

\* card names tried: "", "F", "Ff", "F // f", "Ff // /", "F."
NameInputs ==
  { <<>>, <<"F">>, <<"F", "f">>, <<"F">> \o NameSep \o <<"f">>,
    <<"F", "f">> \o NameSep \o <<"/">>, <<"F", ".">> }

\* names tried for normalising an output again: "", "f", "F", "f // F", " // "
ReNames ==
  { <<>>, <<"f">>, <<"F">>, <<"f">> \o NameSep \o <<"F">>, NameSep }

TextInit ==
  /\ input_text \in TextInputs
  /\ cardName \in NameInputs
  /\ tpc = "call"
  /\ names = <<>>
  /\ k = 1
  /\ namelessText = <<>>
  /\ lowerText = <<>>
  /\ noPunctText = <<>>
  /\ before = <<>>
  /\ kept = <<>>
  /\ pass = 1
  /\ firstOut = <<>>
  /\ changed = FALSE
  \* no corpus is built while preprocessText is run on its own
  /\ cards_dict = <<>>
  /\ pc = "idle"
  /\ pos = 1
  /\ cardNames = <<>>
  /\ cardTexts = <<>>
  /\ tfidf = [vocabulary |-> {}, idf2 |-> <<>>]
  /\ tfs = <<>>
  /\ lastCall = <<>>
  /\ prevCall = <<>>

\* namelessText = input_text; names = cardName.split(" // ")
PreSplit ==
  /\ tpc = "call"
  /\ namelessText' = input_text
  /\ names' = Split(cardName, NameSep)
  /\ k' = 1
  /\ tpc' = "loop"
  /\ UNCHANGED <<input_text, cardName, lowerText, noPunctText, before, kept,
                 pass, firstOut, changed>>
  /\ UNCHANGED corpusVars

\* one iteration of the for loop: namelessText = namelessText.replace(name, '')
PreReplace ==
  /\ tpc = "loop"
  /\ k <= Len(names)
  /\ before' = namelessText
  /\ kept' = Kept(namelessText, names[k])
  /\ namelessText' = Replace(namelessText, names[k])
  /\ k' = k + 1
  /\ UNCHANGED <<input_text, cardName, tpc, names, lowerText, noPunctText,
                 pass, firstOut, changed>>
  /\ UNCHANGED corpusVars

\* lowerText = namelessText.lower()
PreLower ==
  /\ tpc = "loop"
  /\ k > Len(names)
  /\ lowerText' = Lower(namelessText)
  /\ tpc' = "punct"
  /\ UNCHANGED <<input_text, cardName, names, k, namelessText, noPunctText,
                 before, kept, pass, firstOut, changed>>
  /\ UNCHANGED corpusVars

\* noPunctText = lowerText.translate(translator); return noPunctText
PreTranslate ==
  /\ tpc = "punct"
  /\ noPunctText' = Translate(lowerText, translator)
  /\ tpc' = "done"
  /\ UNCHANGED <<input_text, cardName, names, k, namelessText, lowerText,
                 before, kept, pass, firstOut, changed>>
  /\ UNCHANGED corpusVars

\* preprocessText applied to its own output, with another name
Renormalise ==
  /\ tpc = "done"
  /\ pass = 1
  /\ \E name2 \in ReNames : cardName' = name2
  /\ input_text' = noPunctText
  /\ firstOut' = noPunctText
  /\ changed' = (noPunctText # input_text)
  /\ pass' = 2
  /\ tpc' = "call"
  /\ names' = <<>>
  /\ k' = 1
  /\ namelessText' = <<>>
  /\ lowerText' = <<>>
  /\ noPunctText' = <<>>
  /\ before' = <<>>
  /\ kept' = <<>>
  /\ UNCHANGED corpusVars

(***************************************************************************)
(* The card repository (cards_dict['data']): card name -> list of faces,   *)
(* in the order of the JSON file.  A face carries 'types' and 'printings'  *)
(* and may lack 'text'.                                                    *)
(***************************************************************************)
Face(hasText, text, types, printings) ==
  [hasText |-> hasText, text |-> text, types |-> types, printings |-> printings]

Card(name, faces) == [name |-> name, faces |-> faces]

\* "T c."
PumpText == <<"T", " ", "c", ".">>

\* the cards a repository is drawn from, in the order of the file
Catalogue ==
  << \* "G": "T c."
     Card(<<"G">>, << Face(TRUE, PumpText, {"Instant"}, {"M10"}) >>),
     \* "S": "S: a T tts", its own name, a stop word and a plural
     Card(<<"S">>, << Face(TRUE, <<"S", ":", " ", "a", " ", "T", " ", "t", "t", "s">>,
                           {"Enchantment"}, {"M10"}) >>),
     \* "B": the same text as "G"
     Card(<<"B">>, << Face(TRUE, PumpText, {"Instant"}, {"M10"}) >>),
     \* "N": "N a.", nothing but its own name and a stop word
     Card(<<"N">>, << Face(TRUE, <<"N", " ", "a", ".">>, {"Creature"}, {"M10"}) >>),
     \* "F // I": a split card whose second face alone lists an excluded set
     Card(<<"F">> \o <<" ", "/", "/", " ">> \o <<"I">>,
          << Face(TRUE, <<"F", " ", "T", ".">>, {"Instant"}, {"M10"}),
             Face(TRUE, <<"I", " ", "c">>, {"Instant"}, {"UNH"}) >>),
     \* "U": first face without text, printed in an excluded set
     Card(<<"U">>, << Face(FALSE, <<>>, {"Creature"}, {"UGL", "M10"}),
                      Face(TRUE, <<"c">>, {"Creature"}, {"UGL", "M10"}) >>),
     \* "P": a Plane card
     Card(<<"P">>, << Face(TRUE, PumpText, {"Plane"}, {"M10"}) >>) >>

\* a name that no card of the catalogue has
AbsentName == <<"Z">>

\* the cards of the catalogue at the positions S, in the order of the file
RECURSIVE Pick(_, _)
Pick(S, i) ==
  IF i > Len(Catalogue) THEN <<>>
  ELSE (IF i \in S THEN <<Catalogue[i]>> ELSE <<>>) \o Pick(S, i + 1)

\* a repository: up to MaxCards cards of the catalogue, each name once
Repositories ==
  {Pick(S, 1) : S \in {T \in SUBSET (1..Len(Catalogue)) : Cardinality(T) <= MaxCards}}

\* free query texts: "z", a word no card has, and "T tts"
QueryTexts == { <<"z">>, <<"T", " ", "t", "t", "s">> }

\* the n of a similarity request
NValues == (0 - 1)..MaxCards


\* the keys of cards_dict['data']
DictNames == {cards_dict[i].name : i \in 1..Len(cards_dict)}

\* cards_dict['data'][cardName_str]
Entry(cardName_str) ==
  (CHOOSE c \in Range(cards_dict) : c.name = cardName_str).faces

\* " ".join(parts)
RECURSIVE JoinSpace(_)
JoinSpace(parts) ==
  IF parts = <<>> THEN <<>>
  ELSE IF Len(parts) = 1 THEN parts[1]
  ELSE parts[1] \o <<" ">> \o JoinSpace(Tail(parts))

\* " ".join([face['text'] for face in cardEntry if 'text' in face.keys()])
JoinFaceTexts(cardEntry) ==
  LET HasText(face) == face.hasText
      withText == SelectSeq(cardEntry, HasText)
  IN  JoinSpace([i \in 1..Len(withText) |-> withText[i].text])

getRawText(cardName_str) == JoinFaceTexts(Entry(cardName_str))

excludedSets == {"PVAN", "PCEL", "CMB1", "UNH", "UST", "UND", "UGL"}

\* a check that looks at the types and forgets the sets
ExcludedByTypeOnly(faces) ==
  "Plane" \in faces[1].types \/ "Scheme" \in faces[1].types

\* isExcluded, on cardEntry = cards_dict['data'][cardName_str]: only face [0]
\* is looked at
ExcludedEntry(faces) ==
  LET cardEntry == faces[1]
  IN  \/ "Plane" \in cardEntry.types \/ "Scheme" \in cardEntry.types
      \/ cardEntry.printings \cap excludedSets # {}

isExcluded(cardName_str) == ExcludedEntry(Entry(cardName_str))

(***************************************************************************)
(* Tokenizer, stemmer and TF-IDF model.                                    *)
(***************************************************************************)
\* nltk.word_tokenize on the modelled characters: tokens are separated by
\* spaces, and each brace is a token of its own
RECURSIVE WordTokenize(_, _)
WordTokenize(s, cur) ==
  LET flush == IF cur = <<>> THEN <<>> ELSE <<cur>>
  IN  IF s = <<>> THEN flush
      ELSE IF Head(s) = " " THEN flush \o WordTokenize(Tail(s), <<>>)
      ELSE IF Head(s) \in {"{", "}"} THEN flush \o <<<<Head(s)>>>> \o WordTokenize(Tail(s), <<>>)
      ELSE WordTokenize(Tail(s), Append(cur, Head(s)))

EndsWith(w, suf) == Len(w) >= Len(suf) /\ SubSeq(w, Len(w) - Len(suf) + 1, Len(w)) = suf

DropLast(w, n) == SubSeq(w, 1, Len(w) - n)

\* PorterStemmer.stem: words of one or two letters are left alone; step 1a
\* (sses -> ss, ies -> i, ss -> ss, s -> ""), which turns "this" and "was" into
\* the stop words "thi" and "wa".  The later steps strip suffixes built from
\* letters that the modelled words do not end in.
Stem(w) ==
  IF Len(w) <= 2 THEN w
  ELSE IF EndsWith(w, <<"s", "s", "e", "s">>) THEN DropLast(w, 2)
  ELSE IF EndsWith(w, <<"i", "e", "s">>) THEN DropLast(w, IF Len(w) = 4 THEN 1 ELSE 2)
  ELSE IF EndsWith(w, <<"s", "s">>) THEN w
  ELSE IF EndsWith(w, <<"s">>) THEN DropLast(w, 1)
  ELSE w

\* stem_tokens
stem_tokens(tokens) == [i \in 1..Len(tokens) |-> Stem(tokens[i])]

\* tokenize
tokenize(text) == stem_tokens(WordTokenize(text, <<>>))

\* the em dash is written "emdash"
my_stop_words ==
  { <<"a">>, <<"a", "n">>, <<"a", "n", "d">>,
    <<"a", "n", "d", "/", "o", "r">>, <<"a", "r", "e">>, <<"a", "s">>,
    <<"a", "t">>, <<"b", "e">>, <<"b", "y">>, <<"c", "o", "u", "l", "d">>,
    <<"d", "o", "n", "t">>, <<"f", "o", "r">>, <<"i", "f">>, <<"i", "n">>,
    <<"i", "s">>, <<"i", "t">>, <<"i", "t", "s">>, <<"m", "a", "y">>,
    <<"o", "f">>, <<"o", "n">>, <<"o", "r">>, <<"t", "h", "a", "t">>,
    <<"t", "h", "a", "t", "s">>, <<"t", "h", "e">>,
    <<"t", "h", "e", "i", "r">>, <<"t", "h", "e", "m">>,
    <<"t", "h", "e", "n">>, <<"t", "h", "e", "y">>, <<"t", "h", "i">>,
    <<"t", "h", "o", "s", "e">>, <<"t", "o">>, <<"w", "a">>,
    <<"w", "h", "e", "r", "e">>, <<"w", "i", "t", "h">>, <<"y", "o", "u">>,
    <<"y", "o", "u", "r">>, <<"emdash">> }

\* the analyzer of TfidfVectorizer(tokenizer=tokenize, stop_words=my_stop_words):
\* lower-case the document, tokenize it, drop the stop words
Analyze(doc) ==
  LET NotStop(t) == t \notin my_stop_words
  IN  SelectSeq(tokenize(Lower(doc)), NotStop)

\* number of times token t occurs in toks
Count(toks, t) == Cardinality({i \in 1..Len(toks) : toks[i] = t})

\* 10 * idf^2, rounded, for idf = ln((1 + n) / (1 + df)) + 1 (smooth_idf), by
\* corpus size n and document frequency df
IdfSquared ==
  << <<10>>,
     <<20, 10>>,
     <<29, 17, 10>>,
     <<37, 23, 15, 10>>,
     <<44, 29, 20, 14, 10>> >>

\* term counts of a document over the vocabulary, with the squared length of
\* its tf-idf row (sklearn takes a zero length as 1 when it normalises)
Row(doc, vocabulary, idf2) ==
  LET toks == Analyze(doc)
      tf == [t \in vocabulary |-> Count(toks, t)]
      RECURSIVE Sum(_)
      Sum(V) == IF V = {} THEN 0
                ELSE LET t == CHOOSE x \in V : TRUE
                     IN  tf[t] * tf[t] * idf2[t] + Sum(V \ {t})
      n2 == Sum(vocabulary)
  IN  [tf |-> tf, norm2 |-> IF n2 = 0 THEN 1 ELSE n2]

\* tfidf.fit: the vocabulary and the idf weights of the corpus
FitModel(docs) ==
  LET vocabulary == UNION {Range(Analyze(docs[i])) : i \in 1..Len(docs)}
      df(t) == Cardinality({i \in 1..Len(docs) : t \in Range(Analyze(docs[i]))})
  IN  [vocabulary |-> vocabulary,
       idf2 |-> [t \in vocabulary |-> IdfSquared[Len(docs)][df(t)]]]

\* a transform that counts a word it does not know under every vocabulary entry
TransformUnknownAsKnown(model, text) ==
  LET toks == Analyze(text)
      unknown == Cardinality({i \in 1..Len(toks) : toks[i] \notin model.vocabulary})
      row == Row(text, model.vocabulary, model.idf2)
  IN  [tf |-> [t \in model.vocabulary |-> row.tf[t] + unknown],
       norm2 |-> IF unknown > 0 THEN row.norm2 + unknown ELSE row.norm2]

\* tfidf.transform([text])
Transform(model, text) == Row(text, model.vocabulary, model.idf2)

\* cosine_similarity(response, tfs).flatten(): entry i stands for the score
\* dot / sqrt(nq * nd)
CosineSimilarities(model, response, rows) ==
  LET RECURSIVE Dot(_, _)
      Dot(V, row) == IF V = {} THEN 0
                     ELSE LET t == CHOOSE x \in V : TRUE
                          IN  response.tf[t] * row.tf[t] * model.idf2[t] + Dot(V \ {t}, row)
  IN  [i \in 1..Len(rows) |->
         [dot |-> Dot(model.vocabulary, rows[i]), nq |-> response.norm2, nd |-> rows[i].norm2]]

\* score a < score b, for two entries of one cosine_similarities array
ScoreLess(a, b) == a.dot * a.dot * b.nd < b.dot * b.dot * a.nd

ScoreEqual(a, b) == a.dot * a.dot * b.nd = b.dot * b.dot * a.nd

IsZero(a) == a.dot = 0

\* the score is 1.0
IsOne(a) == a.dot > 0 /\ a.dot * a.dot = a.nq * a.nd

IndexOrders(n) ==
  {p \in [1..n -> 1..n] : \A i \in 1..n : \A j \in 1..n : i # j => p[i] # p[j]}

\* the orders that list the highest score first
DescendingOrders(scores) ==
  {p \in IndexOrders(Len(scores)) :
     \A i \in 1..Len(scores) : \A j \in 1..Len(scores) :
       i < j => ~ScoreLess(scores[p[i]], scores[p[j]])}

\* what cosine_similarities.argsort() can return: the indices in ascending
\* order of score.  The default sort is not stable, so equal scores come in
\* an order that numpy does not fix.
ArgsortOrders(scores) ==
  {p \in IndexOrders(Len(scores)) :
     \A i \in 1..Len(scores) : \A j \in 1..Len(scores) :
       i < j => ~ScoreLess(scores[p[j]], scores[p[i]])}

\* a[:n] of the ascending order: the n lowest, not reversed
LowestFirst(a, n) ==
  [m \in 1..(IF n < 0 THEN 0 ELSE IF n > Len(a) THEN Len(a) ELSE n) |-> a[m]]

\* a[-n:] of the ascending order: the n highest, lowest of them first
HighestAscending(a, n) ==
  LET count == IF n <= 0 \/ n > Len(a) THEN Len(a) ELSE n
  IN  [m \in 1..count |-> a[Len(a) - count + m]]

\* a[:-n:-1]: the slice stops one element early
SliceTopShort(a, n) ==
  LET len == Len(a)
      raw == 0 - n
      stop == IF raw < 0
              THEN (IF raw + len < 0 THEN 0 - 1 ELSE raw + len)
              ELSE (IF raw >= len THEN len - 1 ELSE raw)
      count == IF (len - 1) - stop > 0 THEN (len - 1) - stop ELSE 0
  IN  [m \in 1..count |-> a[len - m + 1]]

\* a[:-n-1:-1] as Python evaluates it: from the last element backwards, down
\* to but not including the (0-based) index stop, where a negative stop counts
\* from the end and is then clipped to -1..len-1
SliceTop(a, n) ==
  LET len == Len(a)
      raw == (0 - n) - 1
      stop == IF raw < 0
              THEN (IF raw + len < 0 THEN 0 - 1 ELSE raw + len)
              ELSE (IF raw >= len THEN len - 1 ELSE raw)
      count == IF (len - 1) - stop > 0 THEN (len - 1) - stop ELSE 0
  IN  [m \in 1..count |-> a[len - m + 1]]

\* what a similarity request leaves behind: its arguments, how it ended and
\* the locals of getSimilarTexts
CallRecord(kind, name, text, n, outcome, response, scores, argsort, indices, closest) ==
  [kind |-> kind, cardName |-> name, cardText |-> text, n |-> n, outcome |-> outcome,
   response |-> response, cosine_similarities |-> scores, argsort |-> argsort,
   related_docs_indices |-> indices, closest |-> closest]

\* no request yet
NoCall == CallRecord("none", <<>>, <<>>, 0, "none", <<>>, <<>>, <<>>, <<>>, <<>>)

\* the notebook after cards_dict is loaded
Init ==
  /\ cards_dict \in Repositories
  /\ pc = "construct"
  /\ pos = 1
  /\ cardNames = <<>>
  /\ cardTexts = <<>>
  /\ tfidf = [vocabulary |-> {}, idf2 |-> <<>>]
  /\ tfs = <<>>
  /\ lastCall = NoCall
  /\ prevCall = NoCall
  \* no preprocessText call is stepped through on its own
  /\ input_text = <<>>
  /\ cardName = <<>>
  /\ tpc = "idle"
  /\ names = <<>>
  /\ k = 1
  /\ namelessText = <<>>
  /\ lowerText = <<>>
  /\ noPunctText = <<>>
  /\ before = <<>>
  /\ kept = <<>>
  /\ pass = 1
  /\ firstOut = <<>>
  /\ changed = FALSE

\* an iteration that records the name of the card before it skips it
ConstructSkipAppendsName ==
  /\ pc = "construct"
  /\ pos <= Len(cards_dict)
  /\ isExcluded(cards_dict[pos].name)
  /\ cardNames' = Append(cardNames, cards_dict[pos].name)
  /\ pos' = pos + 1
  /\ UNCHANGED <<cards_dict, pc, cardTexts, tfidf, tfs, lastCall, prevCall>>
  /\ UNCHANGED textVars

\* constructCorpus, one iteration that skips an unwanted card
ConstructSkip ==
  /\ pc = "construct"
  /\ pos <= Len(cards_dict)
  /\ isExcluded(cards_dict[pos].name)
  /\ pos' = pos + 1
  /\ UNCHANGED <<cards_dict, pc, cardNames, cardTexts, tfidf, tfs, lastCall, prevCall>>
  /\ UNCHANGED textVars

\* constructCorpus, one iteration that adds a card to the parallel lists
ConstructAppend ==
  /\ pc = "construct"
  /\ pos <= Len(cards_dict)
  /\ ~isExcluded(cards_dict[pos].name)
  /\ LET cardName_ == cards_dict[pos].name
         text == getRawText(cardName_)
         cleanText == preprocessText(text, cardName_)
     IN  /\ cardNames' = Append(cardNames, cardName_)
         /\ cardTexts' = Append(cardTexts, cleanText)
  /\ pos' = pos + 1
  /\ UNCHANGED <<cards_dict, pc, tfidf, tfs, lastCall, prevCall>>
  /\ UNCHANGED textVars

\* return cardNames, cardTexts
ConstructReturn ==
  /\ pc = "construct"
  /\ pos > Len(cards_dict)
  /\ pc' = "fit"
  /\ UNCHANGED <<cards_dict, pos, cardNames, cardTexts, tfidf, tfs, lastCall, prevCall>>
  /\ UNCHANGED textVars

\* tfs = tfidf.fit_transform(cardTexts); an empty vocabulary is a ValueError
Fit ==
  /\ pc = "fit"
  /\ LET model == FitModel(cardTexts)
     IN  IF model.vocabulary = {}
         THEN pc' = "fitError" /\ UNCHANGED <<tfidf, tfs>>
         ELSE /\ tfidf' = model
              /\ tfs' = [i \in 1..Len(cardTexts) |-> Transform(model, cardTexts[i])]
              /\ pc' = "ready"
  /\ UNCHANGED <<cards_dict, pos, cardNames, cardTexts, lastCall, prevCall>>
  /\ UNCHANGED textVars

\* the request c returned a ranking for the text cardText
SameText(c, cardText) == c.outcome = "returned" /\ c.cardText = cardText

\* the latest request that returned a ranking for the text cardText, a failed
\* lookup in between not counting; NoCall when there is none
LatestFor(cardText) ==
  IF SameText(lastCall, cardText) THEN lastCall
  ELSE IF lastCall.outcome = "KeyError" /\ SameText(prevCall, cardText) THEN prevCall
  ELSE NoCall

\* the body of getSimilarTexts(cardText, n) for some n, called as `kind` for
\* `name`
SimilarTexts(kind, name, cardText) ==
  LET response == Transform(tfidf, cardText)
      cosine_similarities == CosineSimilarities(tfidf, response, tfs)
  IN  \E argsort \in ArgsortOrders(cosine_similarities) :
        \* argsort is a function of the array: the same text sorts the same way
        /\ LatestFor(cardText) # NoCall => LatestFor(cardText).argsort = argsort
        /\ prevCall' = LatestFor(cardText)
        /\ \E n \in NValues :
             LET related_docs_indices == SliceTop(argsort, n)
                 closest == [m \in 1..Len(related_docs_indices) |->
                               cardNames[related_docs_indices[m]]]
             IN  lastCall' = CallRecord(kind, name, cardText, n, "returned", response,
                                        cosine_similarities, argsort,
                                        related_docs_indices, closest)

\* the request orders cardNames itself by score instead of a copy
getSimilarTextsSortsNames ==
  /\ pc = "ready"
  /\ \E cardText \in QueryTexts : SimilarTexts("getSimilarTexts", <<>>, cardText)
  /\ cardNames' = [m \in 1..Len(cardNames) |->
                     cardNames[lastCall'.argsort[Len(cardNames) - m + 1]]]
  /\ UNCHANGED <<cards_dict, pc, pos, cardTexts, tfidf, tfs>>
  /\ UNCHANGED textVars

getSimilarTexts ==
  /\ pc = "ready"
  /\ \E cardText \in QueryTexts : SimilarTexts("getSimilarTexts", <<>>, cardText)
  /\ UNCHANGED <<cards_dict, pc, pos, cardNames, cardTexts, tfidf, tfs>>
  /\ UNCHANGED textVars

\* getSimilarCards(cardName, n); getRawText raises KeyError for a name that
\* is not in cards_dict
getSimilarCards ==
  /\ pc = "ready"
  /\ \E name \in DictNames \cup {AbsentName} :
       IF name \notin DictNames
       THEN /\ \E n \in NValues :
                 lastCall' = CallRecord("getSimilarCards", name, <<>>, n, "KeyError",
                                        <<>>, <<>>, <<>>, <<>>, <<>>)
            \* the lookup fails before anything is computed; the ranking
            \* returned last stays the one a repeat is compared with
            /\ prevCall' = IF lastCall.outcome = "returned" THEN lastCall ELSE prevCall
       ELSE SimilarTexts("getSimilarCards", name, preprocessText(getRawText(name), name))
  /\ UNCHANGED <<cards_dict, pc, pos, cardNames, cardTexts, tfidf, tfs>>
  /\ UNCHANGED textVars

TextNext == PreSplit \/ PreReplace \/ PreLower \/ PreTranslate \/ Renormalise

\* preprocessText run on its own, on every text and name tried
SpecText == TextInit /\ [][TextNext]_vars

Next ==
  \/ ConstructSkip
  \/ ConstructAppend
  \/ ConstructReturn
  \/ Fit
  \/ getSimilarTexts
  \/ getSimilarCards

\* the notebook: build the corpus, fit the model, answer requests
Spec == Init /\ [][Next]_vars

(***************************************************************************)
(* Properties of preprocessText (checked under SpecText).                  *)
(***************************************************************************)
\* the non-empty sub-names of the running call
SubNames == {names[j] : j \in {i \in 1..Len(names) : names[i] # <<>>}}

\* the for loop over the sub-names has finished
NamesRemoved == tpc \in {"punct", "done"} \/ (tpc = "loop" /\ k > Len(names))

\* C6 as stated: once the name-removal loop has finished, no non-empty
\* sub-name occurs in namelessText as a case-sensitive substring.
C6_NoSubNameRemains ==
  NamesRemoved => \A sub \in SubNames : ~Contains(namelessText, sub)

\* C6 amended: each replace of the name-removal loop destroys every
\* occurrence of its sub-name that the text held when that replace started:
\* each such occurrence loses at least one character, and namelessText is
\* the kept characters in their order.
C6_EveryPriorOccurrenceDestroyed ==
  (tpc # "call" /\ k > 1) =>
    LET sub == names[k - 1]
    IN  /\ namelessText = [j \in 1..Len(kept) |-> before[kept[j]]]
        /\ \A j \in 1..(Len(kept) - 1) : kept[j] < kept[j + 1]
        /\ sub # <<>> =>
             \A i \in 1..Len(before) :
               OccursAt(before, sub, i) =>
                 \E p \in i..(i + Len(sub) - 1) : p \notin Range(kept)

\* C6 witness: a replace deleted an occurrence of its sub-name and the
\* joined remainder holds the sub-name again.
C6_Witness ==
  /\ tpc = "loop" /\ k > 1 /\ names[k - 1] # <<>>
  /\ Len(kept) < Len(before)
  /\ Contains(namelessText, names[k - 1])

KeptSymbols == {"{", "}", "/", "+", "-"}

\* s with its stripped punctuation dropped, its kept symbols as they are and
\* every other character shown as "x"
RECURSIVE Skeleton(_)
Skeleton(s) ==
  IF s = <<>> THEN <<>>
  ELSE IF Head(s) \in punct THEN Skeleton(Tail(s))
  ELSE <<IF Head(s) \in KeptSymbols THEN Head(s) ELSE "x">> \o Skeleton(Tail(s))

\* C9: the text preprocessText returns has no upper-case letter and no
\* stripped punctuation character; the symbols { } / + - left after name
\* removal stay where they are among the surviving characters; and
\* "{T}: Add {W}." with a name that does not occur in it gives "{t} add {w}".
C9_LowerNoPunctSymbolsKept ==
  tpc = "done" =>
    /\ \A i \in 1..Len(noPunctText) :
         noPunctText[i] \notin UpperCase /\ noPunctText[i] \notin punct
    /\ Skeleton(noPunctText) = Skeleton(namelessText)
    /\ (input_text = TapForWhite /\ \A sub \in SubNames : ~Contains(input_text, sub))
         => noPunctText = TapForWhiteClean

\* C9 witness: "{T}: Add {W}." has been normalised to "{t} add {w}".
C9_Witness ==
  /\ tpc = "done" /\ input_text = TapForWhite /\ cardName = <<"F", ".">>
  /\ noPunctText = TapForWhiteClean

\* C10 as stated: normalising an output again, with the empty name or with
\* any name that is not a substring of that output, returns it unchanged.
C10_RenormaliseNameNotSubstring ==
  (tpc = "done" /\ pass = 2 /\ (cardName = <<>> \/ ~Contains(firstOut, cardName)))
    => noPunctText = firstOut

\* C10 amended: normalising an output again returns it unchanged when the
\* name is empty or none of its non-empty sub-names (the parts between
\* " // ") occurs in that output.
C10_RenormaliseNoSubNameOccurs ==
  (tpc = "done" /\ pass = 2 /\ \A sub \in SubNames : ~Contains(firstOut, sub))
    => noPunctText = firstOut

\* C10 witness: an output that differs from its raw text was normalised
\* again with a non-empty name that does not occur in it, and came back equal.
C10_Witness ==
  /\ tpc = "done" /\ pass = 2 /\ changed
  /\ cardName = <<"f">> /\ firstOut # <<>> /\ ~Contains(firstOut, cardName)
  /\ noPunctText = firstOut

(***************************************************************************)
(* Properties of the corpus and of the similarity requests (under Spec).   *)
(***************************************************************************)
\* index of a card in the corpus
IndexOf(name) == CHOOSE i \in 1..Len(cardNames) : cardNames[i] = name

InCorpus(name) == \E i \in 1..Len(cardNames) : cardNames[i] = name

\* the latest request was getSimilarCards for a card of the corpus and returned
SelfQuery ==
  /\ lastCall.kind = "getSimilarCards"
  /\ lastCall.outcome = "returned"
  /\ InCorpus(lastCall.cardName)

\* number of corpus cards whose score in the latest request is 1.0
OnesOf(c) ==
  Cardinality({i \in 1..Len(c.cosine_similarities) : IsOne(c.cosine_similarities[i])})

\* C1 as stated: getSimilarCards(C.name, k), for a corpus card C with
\* non-empty raw text and k >= 1, returns a list that contains C.name, and C
\* scores 1.0.
C1_SelfReturnedWithScoreOne ==
  (SelfQuery /\ getRawText(lastCall.cardName) # <<>> /\ lastCall.n >= 1) =>
    /\ lastCall.cardName \in Range(lastCall.closest)
    /\ IsOne(lastCall.cosine_similarities[IndexOf(lastCall.cardName)])

\* C1 amended: if the normalised text of the corpus card C has a token that
\* is not a stop word, C scores 1.0 in getSimilarCards(C.name, k), no card
\* scores higher, and the result contains C.name whenever k is at least the
\* number of corpus cards that score 1.0; if it has none, C scores 0.
C1_SelfScoreOneAmongTies ==
  SelfQuery =>
    LET self == IndexOf(lastCall.cardName)
        scores == lastCall.cosine_similarities
    IN  IF Analyze(lastCall.cardText) # <<>>
        THEN /\ IsOne(scores[self])
             /\ \A i \in 1..Len(scores) : ~ScoreLess(scores[self], scores[i])
             /\ lastCall.n >= OnesOf(lastCall) => lastCall.cardName \in Range(lastCall.closest)
        ELSE IsZero(scores[self])

\* C1 witness: a card was asked about with k equal to the number of cards
\* that score 1.0, two of them, and is in the result.
C1_Witness ==
  /\ SelfQuery /\ Analyze(lastCall.cardText) # <<>>
  /\ OnesOf(lastCall) = 2 /\ lastCall.n = 2
  /\ lastCall.cardName \in Range(lastCall.closest)

\* C2 as stated: the result is in descending score order and any two
\* returned cards with equal scores come in corpus order, lower index first.
C2_StableDescending ==
  lastCall.outcome = "returned" =>
    LET idx == lastCall.related_docs_indices
        scores == lastCall.cosine_similarities
    IN  \A p \in 1..Len(idx) : \A q \in 1..Len(idx) :
          p < q => /\ ~ScoreLess(scores[idx[p]], scores[idx[q]])
                   /\ ScoreEqual(scores[idx[p]], scores[idx[q]]) => idx[p] < idx[q]

\* C2 amended: the result is in descending score order, a card never comes
\* after one that scores strictly lower; cards with equal scores come in the
\* reverse of the order argsort left them in, which need not be corpus order.
C2_DescendingReverseOfArgsort ==
  lastCall.outcome = "returned" =>
    LET idx == lastCall.related_docs_indices
        scores == lastCall.cosine_similarities
        len == Len(lastCall.argsort)
    IN  /\ \A p \in 1..Len(idx) : \A q \in 1..Len(idx) :
             p < q => ~ScoreLess(scores[idx[p]], scores[idx[q]])
        /\ \A m \in 1..Len(idx) : idx[m] = lastCall.argsort[len - m + 1]
        /\ \A m \in 1..Len(idx) : lastCall.closest[m] = cardNames[idx[m]]

\* C2 witness: two returned cards score the same and the one later in the
\* corpus comes first, above a card that scores lower.
C2_Witness ==
  /\ lastCall.outcome = "returned"
  /\ LET idx == lastCall.related_docs_indices
         scores == lastCall.cosine_similarities
     IN  /\ Len(idx) >= 2
         /\ ScoreEqual(scores[idx[1]], scores[idx[2]])
         /\ idx[1] > idx[2]
         /\ ~IsZero(scores[idx[1]])

\* C3: for one query text and positive n1 < n2, the result for n1 is a
\* prefix of the result for n2 (whichever of the two was asked first).
C3_TopN1PrefixOfTopN2 ==
  (prevCall.outcome = "returned" /\ lastCall.outcome = "returned"
     /\ prevCall.cardText = lastCall.cardText /\ prevCall.n >= 1 /\ lastCall.n >= 1) =>
    /\ prevCall.n < lastCall.n => IsPrefix(prevCall.closest, lastCall.closest)
    /\ lastCall.n < prevCall.n => IsPrefix(lastCall.closest, prevCall.closest)

\* C3 witness: a text was asked about with n = 1 and then with n = 2, two
\* cards tie for the first place, and both results are full.
C3_Witness ==
  /\ prevCall.outcome = "returned" /\ lastCall.outcome = "returned"
  /\ prevCall.cardText = lastCall.cardText
  /\ prevCall.n = 1 /\ lastCall.n = 2
  /\ Len(prevCall.closest) = 1 /\ Len(lastCall.closest) = 2
  /\ ScoreEqual(lastCall.cosine_similarities[lastCall.related_docs_indices[1]],
                lastCall.cosine_similarities[lastCall.related_docs_indices[2]])

\* C4: a similarity request with n <= 0 (for a text, or for a card the
\* repository has) ends in an InvalidArgument error and returns no list.
C4_NonPositiveNRejected ==
  (lastCall.kind # "none" /\ lastCall.n <= 0
     /\ (lastCall.kind = "getSimilarTexts" \/ lastCall.cardName \in DictNames)) =>
    /\ lastCall.outcome = "InvalidArgument"
    /\ lastCall.closest = <<>>

\* the faces of a card of the corpus
FacesOf(name) == Entry(name)

\* C5 as stated: no card that lists an excluded set code in the printings of
\* any of its faces is in cardNames.
C5_NoExcludedPrintingOnAnyFace ==
  \A i \in 1..Len(cardNames) :
    \A f \in 1..Len(FacesOf(cardNames[i])) :
      FacesOf(cardNames[i])[f].printings \cap excludedSets = {}

\* C5 amended: no card whose first face lists an excluded set code in its
\* printings is in cardNames; the printings of the other faces are not
\* looked at.
C5_NoExcludedPrintingOnFirstFace ==
  \A i \in 1..Len(cardNames) :
    FacesOf(cardNames[i])[1].printings \cap excludedSets = {}

\* C5 witness: constructCorpus has returned for a repository that has a card
\* printed in an excluded set, and has left it out.
C5_Witness ==
  /\ pc = "fit"
  /\ \E c \in Range(cards_dict) :
       /\ c.faces[1].printings \cap excludedSets # {}
       /\ ~InCorpus(c.name)
  /\ cardNames # <<>>

\* the names of the first m cards of the repository that are not excluded
RECURSIVE WantedNames(_)
WantedNames(m) ==
  IF m = 0 THEN <<>>
  ELSE WantedNames(m - 1) \o
       (IF isExcluded(cards_dict[m].name) THEN <<>> ELSE <<cards_dict[m].name>>)

OutOfVocabulary(text) ==
  /\ tokenize(Lower(text)) # <<>>
  /\ \A t \in Range(tokenize(Lower(text))) : t \notin tfidf.vocabulary

\* C8: a request with positive n for a text none of whose tokens is in the
\* vocabulary returns normally, with an all-zero query vector and a score of
\* 0 for every corpus card.
C8_OutOfVocabularyScoresZero ==
  (lastCall.kind = "getSimilarTexts" /\ lastCall.n >= 1
     /\ OutOfVocabulary(lastCall.cardText)) =>
    /\ lastCall.outcome = "returned"
    /\ \A t \in tfidf.vocabulary : lastCall.response.tf[t] = 0
    /\ Len(lastCall.cosine_similarities) = Len(cardNames)
    /\ \A i \in 1..Len(cardNames) : IsZero(lastCall.cosine_similarities[i])
    /\ \A m \in 1..Len(lastCall.closest) :
         IsZero(lastCall.cosine_similarities[lastCall.related_docs_indices[m]])

\* C8 witness: "z", which no card has, was asked about with n = 2 and two
\* cards came back.
C8_Witness ==
  /\ lastCall.kind = "getSimilarTexts" /\ lastCall.outcome = "returned"
  /\ lastCall.cardText = <<"z">> /\ OutOfVocabulary(lastCall.cardText)
  /\ lastCall.n = 2 /\ Len(lastCall.closest) = 2

\* ---- C11 ----

Min(a, b) == IF a <= b THEN a ELSE b

\* C11: a request with a positive n on a corpus of N cards returns exactly
\* min(n, N) names, all different and all names of the corpus; the scores of
\* the returned cards never increase along the list, and no card left out
\* scores higher than a returned one.
C11_TopNReturned ==
  (lastCall.outcome = "returned" /\ lastCall.n >= 1) =>
    LET N == Len(cardNames)
        idx == lastCall.related_docs_indices
        sc == lastCall.cosine_similarities
        closest == lastCall.closest
    IN  /\ Len(closest) = Min(lastCall.n, N)
        /\ Len(idx) = Len(closest)
        /\ \A m \in 1..Len(closest) :
             idx[m] \in 1..N /\ closest[m] = cardNames[idx[m]]
        /\ \A i, j \in 1..Len(closest) : i < j => closest[i] # closest[j]
        /\ \A i, j \in 1..Len(idx) : i < j => ~ScoreLess(sc[idx[i]], sc[idx[j]])
        /\ \A m \in 1..Len(idx) : \A j \in (1..N) \ Range(idx) :
             ~ScoreLess(sc[idx[m]], sc[j])

\* C11 witness: one name was asked for on a corpus of two cards, and the card
\* left out matches the text too but scores strictly lower than the one
\* returned.
C11_Witness ==
  /\ lastCall.outcome = "returned"
  /\ lastCall.n = 1
  /\ Len(cardNames) = 2
  /\ Len(lastCall.closest) = 1
  /\ \E j \in (1..2) \ Range(lastCall.related_docs_indices) :
       /\ ~IsZero(lastCall.cosine_similarities[j])
       /\ ScoreLess(lastCall.cosine_similarities[j],
                    lastCall.cosine_similarities[lastCall.related_docs_indices[1]])

\* ---- C12 ----

\* C12: once the model is fitted, a request, failed lookups included, leaves
\* cards_dict, cardNames, cardTexts, the fitted vocabulary and idf weights and
\* the corpus rows as they were, and a request that repeats the text and the n
\* of the latest ranking returned for that text returns the same names.
C12_RequestsLeaveModelUnchanged ==
  [][pc = "ready" =>
       /\ UNCHANGED <<cards_dict, cardNames, cardTexts, tfidf, tfs>>
       /\ (/\ lastCall'.outcome = "returned"
           /\ SameText(prevCall', lastCall'.cardText)
           /\ prevCall'.n = lastCall'.n)
          => lastCall'.closest = prevCall'.closest]_vars

\* C12 witness: the same text was ranked twice with n = 1 on a corpus where
\* two cards tie for the highest score, and both requests returned the same
\* name.
C12_Witness ==
  /\ pc = "ready"
  /\ lastCall.outcome = "returned"
  /\ SameText(prevCall, lastCall.cardText)
  /\ prevCall.n = 1
  /\ lastCall.n = 1
  /\ Len(cardNames) = 2
  /\ ScoreEqual(lastCall.cosine_similarities[1], lastCall.cosine_similarities[2])
  /\ ~IsZero(lastCall.cosine_similarities[1])
  /\ lastCall.closest = prevCall.closest
  /\ Len(lastCall.closest) = 1

====
